---- MODULE Spec2Model ----
\* Model of esp32-samples-reader: the SIGINT flag context (ctrlc.rs), the
\* interrupted-I/O helpers (io.rs), the file-output command (read_wav.rs) and
\* the live-playback command with its null-sink module session
\* (pulse_stream.rs).
EXTENDS Integers, Sequences, FiniteSets, TLC

VARIABLES
    cmd,                    \* which command main dispatched to: "wav" | "pulse" | "none"
    pc,                     \* position of the single thread of control
    CTRLC_HANDLED,          \* ctrlc.rs thread-local AtomicBool
    sigint_handler,         \* installed SIGINT disposition: "SIG_DFL" | "SIG_IGN" | "handle_ignore_sigint"
    rec_has_received_ctrlc, \* CtrlCIgnoredOutput.has_received_ctrlc: "none" | "T" | "F"
    output,                 \* CtrlCIgnoredOutput.output / result of the closure: <<tag, detail>>
    body_result,            \* outcome of the body given to using_null_sink
    module_index,           \* id returned by load_module (-1 before)
    module_loaded,          \* audio-server side: the null-sink module is loaded
    load_reqs,              \* number of load_module requests issued
    unload_reqs,            \* ids of the unload_module requests issued, in order
    sample_i,               \* read_wav: index of the next sample of the buffer to write
    total_written_samples,  \* running total of both streaming loops
    sink_samples,           \* samples accepted by the output sink so far
    bufs_read,              \* reads started by the streaming loop
    finalize_count,         \* calls of writer.finalize() / simple.drain()
    exit_kind,              \* "none" | "ok" | "err" | "panic" | "killed"
    exit_code,              \* ExitCode of an Ok return, -1 otherwise
    exit_err,               \* which error an Err return carries, "-" otherwise
    failures,               \* history: fatal conditions that occurred
    handler_fired,          \* history: handle_ignore_sigint ran in this activation
    fired_in_body,          \* history: handle_ignore_sigint ran while the body was running
    sig_in_loop,            \* history: handle_ignore_sigint ran while a streaming loop was running
    observed,               \* history: a loop condition check has observed the flag
    read_after_observed,    \* history: a read was started after such a check
    last_poll,              \* history: result of the latest has_received_ctrlc() in the loop
    fired_at_last_poll,     \* history: handler_fired at the time of that poll
    last_read,              \* history: outcome of the latest read of the loop
    total_at_read,          \* history: total_written_samples when that read was made
    sink_at_read,           \* history: sink_samples when that read was made
    previous_action,        \* ignoring_ctrlc: the disposition sigaction returned, "none" before
    entry_disposition,      \* history: the disposition in effect when ignoring_ctrlc was called
    install_attempts,       \* history: calls of disable_ctrlc
    serial_opened,          \* history: io::open_serial_port succeeded
    load_delivered,         \* history: value the load_module callback delivered (-1: none)
    reads_after_flag,       \* history: reads started while the flag was already set
    h_fn,                   \* io helper under test: "idle" | "retry" | "recover"
    h_script,               \* outcomes the helper's op yields on successive invocations
    h_out,                  \* what the helper did: [returned, result, calls, r_calls]
    br                      \* one call of PulseUtil::call_introspect_function

ctrlVars == <<CTRLC_HANDLED, sigint_handler, rec_has_received_ctrlc>>
sinkVars == <<body_result, module_index, module_loaded, load_reqs, unload_reqs>>
loopVars == <<sample_i, total_written_samples, sink_samples, bufs_read, finalize_count>>
exitVars == <<exit_kind, exit_code, exit_err>>
sigHist  == <<handler_fired, fired_in_body, sig_in_loop>>
loopHist == <<observed, read_after_observed, last_poll, fired_at_last_poll,
              last_read, total_at_read, sink_at_read>>
helperVars == <<h_fn, h_script, h_out, br>>
auxVars == <<previous_action, entry_disposition, install_attempts, serial_opened, load_delivered,
             reads_after_flag>>

vars == <<cmd, pc, ctrlVars, output, sinkVars, loopVars, exitVars, failures,
          sigHist, loopHist, auxVars, helperVars>>

----------------------------------------------------------------------------
\* Bounds of the model

MaxReads == 2       \* reads a streaming loop may start
BufSize == 1        \* bytes per input buffer (buf_size, scaled down)
MaxOps == 3         \* longest scripted outcome sequence of an op
IdBits == 3         \* width of a module id in the model (u32 scaled down)

\* Program constants
SIGINT == 2
EXIT_SUCCESS == 0
EXIT_FAILURE == 1
SamplesPerByte == 8
SIGINT_BASE == 128

U32_MAX == 2^IdBits - 1
ModuleIds == {0, 1, U32_MAX}

BufSamples == BufSize * SamplesPerByte

----------------------------------------------------------------------------
\* Outcomes of fallible operations: Result<A, E>

Ok(v) == [tag |-> "Ok", val |-> v, variant |-> "-", kind |-> "-"]
Err(variant, kind) == [tag |-> "Err", val |-> "-", variant |-> variant, kind |-> kind]

IoKinds == {"Interrupted", "TimedOut"}
\* std::io::Result<()> of serial.read_exact
ReadOutcomes == {Ok("unit")} \cup {Err("IoError", k) : k \in IoKinds}
\* hound::Result<()> of writer.write_sample
WriteOutcomes == {Ok("unit"), Err("FormatError", "-")} \cup {Err("IoError", k) : k \in IoKinds}
\* outcomes with distinguishable success values, for the helpers on their own
OpOutcomes == {Ok("a"), Ok("b"), Err("FormatError", "-")} \cup {Err("IoError", k) : k \in IoKinds}

SeqsUpTo(S, n) == UNION {[1..k -> S] : k \in 1..n}

----------------------------------------------------------------------------
\* io.rs: recover_if_interrupted / retry_if_interrupted

\* recover_if_interrupted(f, r): f is invoked once and yields f_out; the
\* recovery closure r yields r_val when (and only when) it is invoked.
recover_any_error(f_out, r_val) ==
    IF f_out.tag = "Ok"
    THEN [returned |-> TRUE, result |-> f_out, calls |-> 1, r_calls |-> 0]
    ELSE [returned |-> TRUE, result |-> Ok(r_val), calls |-> 1, r_calls |-> 1]

recover_if_interrupted(f_out, r_val) ==
    IF f_out.tag = "Ok"
    THEN [returned |-> TRUE, result |-> f_out, calls |-> 1, r_calls |-> 0]
    ELSE IF f_out.kind = "Interrupted"
         THEN [returned |-> TRUE, result |-> Ok(r_val), calls |-> 1, r_calls |-> 1]
         ELSE [returned |-> TRUE, result |-> f_out, calls |-> 1, r_calls |-> 0]

\* the error_mapper closure of read_wav.rs: Option<&io::Error> of a hound::Error
error_mapper(e) ==
    IF e.variant = "IoError" THEN [some |-> TRUE, kind |-> e.kind]
                             ELSE [some |-> FALSE, kind |-> "-"]

should_retry_any_error(result) == result.tag = "Err"

should_retry(result) ==
    IF result.tag = "Ok"
    THEN FALSE
    ELSE LET m == error_mapper(result)
         IN IF m.some THEN m.kind = "Interrupted" ELSE FALSE

\* retry_if_interrupted(f, error_mapper): f[i] is what the i-th invocation of
\* the op yields. The do-while loop invokes the op, and invokes it again while
\* should_retry; when the script is used up and the loop would invoke the op
\* once more, the call has not returned (returned = FALSE).
RECURSIVE retry_loop(_, _)
retry_loop(f, n) ==
    LET result == f[n + 1]
    IN IF should_retry(result)
       THEN IF n + 1 < Len(f)
            THEN retry_loop(f, n + 1)
            ELSE [returned |-> FALSE, result |-> result, calls |-> n + 1, r_calls |-> 0]
       ELSE [returned |-> TRUE, result |-> result, calls |-> n + 1, r_calls |-> 0]

retry_if_interrupted(f) == retry_loop(f, 0)

----------------------------------------------------------------------------
\* ctrlc.rs

\* a poll that never sees the flag
has_received_ctrlc_never == FALSE

\* CtrlCIgnoredContext::has_received_ctrlc
has_received_ctrlc == CTRLC_HANDLED

\* handle_ignore_sigint: the value the handler stores into the flag
handle_ignore_sigint_toggle(value) == ~value

handle_ignore_sigint(value) == TRUE

\* exit code chosen from CtrlCIgnoredOutput.has_received_ctrlc
exit_code_always_success(received) == EXIT_SUCCESS

exit_code_of(received) == IF received THEN SIGINT_BASE + SIGINT ELSE EXIT_SUCCESS

B2S(b) == IF b THEN "T" ELSE "F"

LoopPcs == {"loop_check", "read", "write"}
PulseBodyPcs == {"open_stream", "open_serial", "loop_check", "read", "write", "drain"}
\* positions at which the closure given to ignoring_ctrlc is running
BodyPcs == LoopPcs \cup {"load_module", "open_stream", "open_serial", "drain", "unload_module"}

Return(kind, code, err) ==
    /\ pc' = "done"
    /\ exit_kind' = kind
    /\ exit_code' = code
    /\ exit_err' = err

\* no call of call_introspect_function under way
BrIdle == [pc |-> "idle", kind |-> "-", cell |-> "None", rc |-> 0, srv |-> "-",
           cb_calls |-> 0, first |-> "-", idle |-> 0, ret |-> "-"]

HelperIdle ==
    /\ br = BrIdle
    /\ h_fn = "idle"
    /\ h_script = <<>>
    /\ h_out = [returned |-> FALSE, result |-> Ok("-"), calls |-> 0, r_calls |-> 0]

Init ==
    /\ cmd \in {"wav", "pulse"}
    /\ pc = IF cmd = "wav" THEN "wav_open_serial" ELSE "pulse_create"
    /\ CTRLC_HANDLED = FALSE
    /\ sigint_handler \in {"SIG_DFL", "SIG_IGN"}
    /\ rec_has_received_ctrlc = "none"
    /\ output = <<"none", "none">>
    /\ body_result = "none"
    /\ module_index = -1
    /\ module_loaded = FALSE
    /\ load_reqs = 0
    /\ unload_reqs = <<>>
    /\ sample_i = 0
    /\ total_written_samples = 0
    /\ sink_samples = 0
    /\ bufs_read = 0
    /\ finalize_count = 0
    /\ exit_kind = "none"
    /\ exit_code = -1
    /\ exit_err = "-"
    /\ failures = {}
    /\ handler_fired = FALSE
    /\ fired_in_body = FALSE
    /\ sig_in_loop = FALSE
    /\ observed = FALSE
    /\ read_after_observed = FALSE
    /\ last_poll = "none"
    /\ fired_at_last_poll = FALSE
    /\ last_read = "none"
    /\ total_at_read = 0
    /\ sink_at_read = 0
    /\ previous_action = "none"
    /\ entry_disposition = "none"
    /\ install_attempts = 0
    /\ serial_opened = FALSE
    /\ load_delivered = -1
    /\ reads_after_flag = 0
    /\ HelperIdle

----------------------------------------------------------------------------
\* Asynchronous delivery of SIGINT. Under handle_ignore_sigint it only stores
\* into the flag; under SIG_DFL it ends the process; under SIG_IGN nothing happens.
Sigint ==
    /\ pc # "done"
    /\ pc # "idle"
    /\ sigint_handler # "SIG_IGN"
    /\ IF sigint_handler = "handle_ignore_sigint"
       THEN /\ CTRLC_HANDLED' = handle_ignore_sigint(CTRLC_HANDLED)
            /\ handler_fired' = TRUE
            /\ fired_in_body' = (fired_in_body \/ pc \in BodyPcs)
            /\ sig_in_loop' = (sig_in_loop \/ pc \in LoopPcs)
            /\ UNCHANGED <<pc, exitVars>>
       ELSE /\ Return("killed", -1, "-")
            /\ UNCHANGED <<CTRLC_HANDLED, sigHist>>
    /\ UNCHANGED <<cmd, sigint_handler, rec_has_received_ctrlc, output, sinkVars,
                   loopVars, failures, loopHist, helperVars, auxVars>>

\* read_wav.rs: io::open_serial_port(...)?
WavOpenSerial ==
    /\ pc = "wav_open_serial"
    /\ \E ok \in BOOLEAN :
         IF ok
         THEN /\ pc' = "wav_create_writer"
              /\ serial_opened' = TRUE
              /\ UNCHANGED <<exitVars, failures>>
         ELSE /\ Return("err", -1, "serial_open")
              /\ failures' = failures \cup {"serial_open"}
              /\ UNCHANGED serial_opened
    /\ UNCHANGED <<cmd, ctrlVars, output, sinkVars, loopVars, sigHist, loopHist, helperVars,
                   previous_action, entry_disposition, install_attempts, load_delivered,
                   reads_after_flag>>

\* read_wav.rs: WavWriter::create(...)?
WavCreateWriter ==
    /\ pc = "wav_create_writer"
    /\ \E ok \in BOOLEAN :
         IF ok
         THEN pc' = "ctrlc_enter" /\ UNCHANGED <<exitVars, failures>>
         ELSE Return("err", -1, "writer_create") /\ failures' = failures \cup {"writer_create"}
    /\ UNCHANGED <<cmd, ctrlVars, output, sinkVars, loopVars, sigHist, loopHist, helperVars, auxVars>>

\* pulse_stream.rs: PulseUtil::create("esp32-pulse")?
PulseCreate ==
    /\ pc = "pulse_create"
    /\ \E ok \in BOOLEAN :
         IF ok
         THEN pc' = "pulse_preflight" /\ UNCHANGED <<exitVars, failures>>
         ELSE Return("err", -1, "pulse_create") /\ failures' = failures \cup {"pulse_create"}
    /\ UNCHANGED <<cmd, ctrlVars, output, sinkVars, loopVars, sigHist, loopHist, helperVars, auxVars>>

\* a pre-flight check that reports the existing sink and goes on
PulsePreflight_proceeds ==
    /\ pc = "pulse_preflight"
    /\ \E r \in {"None", "SomeNone", "SomeSome", "Err"} :
         CASE r = "None" -> pc' = "ctrlc_enter" /\ UNCHANGED <<exitVars, failures>>
           [] r = "Err" -> Return("err", -1, "preflight") /\ failures' = failures \cup {"preflight"}
           [] OTHER -> /\ pc' = "ctrlc_enter"
                       /\ failures' = failures \cup {"sink_exists"}
                       /\ UNCHANGED exitVars
    /\ UNCHANGED <<cmd, ctrlVars, output, sinkVars, loopVars, sigHist, loopHist, helperVars, auxVars>>

\* pulse_stream.rs: the pre-flight get_sink_owner_module_by_name(PULSE_SINK_NAME)?
\* and the early return when the sink exists
PulsePreflight ==
    /\ pc = "pulse_preflight"
    /\ \E r \in {"None", "SomeNone", "SomeSome", "Err"} :
         CASE r = "None" -> pc' = "ctrlc_enter" /\ UNCHANGED <<exitVars, failures>>
           [] r = "Err" -> Return("err", -1, "preflight") /\ failures' = failures \cup {"preflight"}
           [] OTHER -> Return("ok", EXIT_FAILURE, "-") /\ failures' = failures \cup {"sink_exists"}
    /\ UNCHANGED <<cmd, ctrlVars, output, sinkVars, loopVars, sigHist, loopHist, helperVars, auxVars>>

\* an ignoring_ctrlc that runs f without installing handle_ignore_sigint
CtrlcEnter_no_install ==
    /\ pc = "ctrlc_enter"
    /\ CTRLC_HANDLED' = FALSE
    /\ handler_fired' = FALSE
    /\ install_attempts' = install_attempts + 1
    /\ entry_disposition' = sigint_handler
    /\ previous_action' = sigint_handler
    /\ pc' = IF cmd = "wav" THEN "loop_check" ELSE "load_module"
    /\ UNCHANGED <<cmd, sigint_handler, rec_has_received_ctrlc, output, sinkVars, loopVars,
                   exitVars, failures, fired_in_body, sig_in_loop, loopHist, helperVars,
                   serial_opened, load_delivered, reads_after_flag>>

\* ctrlc.rs ignoring_ctrlc, up to the call of f: the flag is cleared, then
\* disable_ctrlc()? installs handle_ignore_sigint
CtrlcEnter ==
    /\ pc = "ctrlc_enter"
    /\ CTRLC_HANDLED' = FALSE
    /\ handler_fired' = FALSE
    /\ install_attempts' = install_attempts + 1
    /\ entry_disposition' = sigint_handler
    /\ \E ok \in BOOLEAN :
         IF ok
         THEN /\ sigint_handler' = "handle_ignore_sigint"
              /\ previous_action' = sigint_handler
              /\ pc' = IF cmd = "wav" THEN "loop_check" ELSE "load_module"
              /\ UNCHANGED <<exitVars, failures>>
         ELSE /\ Return("err", -1, "sigaction_install")
              /\ failures' = failures \cup {"sigaction_install"}
              /\ UNCHANGED <<sigint_handler, previous_action>>
    /\ UNCHANGED <<cmd, rec_has_received_ctrlc, output, sinkVars, loopVars,
                   fired_in_body, sig_in_loop, loopHist, helperVars, serial_opened,
                   load_delivered, reads_after_flag>>

----------------------------------------------------------------------------
\* pulse_stream.rs: PulseUtil::using_null_sink and the body it guards

\* a load_module that does not know the failure sentinel
load_failed_never(result) == FALSE

\* load_module: if result == u32::MAX { Err(..) } else { Ok(result) }
load_failed(result) == result = U32_MAX

\* load_module("module-null-sink", args)?: the request is issued, the pump may
\* fail, the callback delivers an index, u32::MAX is the failure sentinel
LoadModule ==
    /\ pc = "load_module"
    /\ load_reqs' = load_reqs + 1
    /\ \E pump_ok \in BOOLEAN, result \in ModuleIds :
         /\ load_delivered' = (IF pump_ok THEN result ELSE -1)
         /\ IF pump_ok /\ ~load_failed(result)
            THEN /\ module_index' = result
                 /\ module_loaded' = TRUE
                 /\ pc' = "open_stream"
                 /\ UNCHANGED <<output, failures>>
            ELSE /\ output' = <<"Err", IF pump_ok THEN "load" ELSE "load_call">>
                 /\ failures' = failures \cup {"load"}
                 /\ pc' = "ctrlc_exit"
                 /\ UNCHANGED <<module_index, module_loaded>>
    /\ UNCHANGED <<cmd, ctrlVars, body_result, unload_reqs, loopVars, exitVars,
                   sigHist, loopHist, helperVars, previous_action, entry_disposition,
                   install_attempts, serial_opened, reads_after_flag>>

\* body: Simple::new(...)?
OpenStream ==
    /\ pc = "open_stream"
    /\ \E ok \in BOOLEAN :
         IF ok
         THEN pc' = "open_serial" /\ UNCHANGED <<body_result, failures>>
         ELSE /\ body_result' = "Err_stream_open"
              /\ failures' = failures \cup {"stream_open"}
              /\ pc' = "unload_module"
    /\ UNCHANGED <<cmd, ctrlVars, output, module_index, module_loaded, load_reqs,
                   unload_reqs, loopVars, exitVars, sigHist, loopHist, helperVars, auxVars>>

\* body: io::open_serial_port(...)?
OpenSerial ==
    /\ pc = "open_serial"
    /\ \E ok \in BOOLEAN :
         IF ok
         THEN /\ pc' = "loop_check"
              /\ serial_opened' = TRUE
              /\ UNCHANGED <<body_result, failures>>
         ELSE /\ body_result' = "Err_serial_open"
              /\ failures' = failures \cup {"serial_open"}
              /\ pc' = "unload_module"
              /\ UNCHANGED serial_opened
    /\ UNCHANGED <<cmd, ctrlVars, output, module_index, module_loaded, load_reqs,
                   unload_reqs, loopVars, exitVars, sigHist, loopHist, helperVars,
                   previous_action, entry_disposition, install_attempts, load_delivered,
                   reads_after_flag>>

\* the body unwinds without catch_unwind around it: no unload step
BodyPanic_uncaught ==
    /\ cmd = "pulse"
    /\ pc \in PulseBodyPcs
    /\ body_result' = "Panic"
    /\ failures' = failures \cup {"panic"}
    /\ Return("panic", -1, "-")
    /\ UNCHANGED <<cmd, ctrlVars, output, module_index, module_loaded, load_reqs,
                   unload_reqs, loopVars, sigHist, loopHist, helperVars, auxVars>>

\* the body panics; catch_unwind(|| f()) turns the unwind into Err(payload)
BodyPanic ==
    /\ cmd = "pulse"
    /\ pc \in PulseBodyPcs
    /\ body_result' = "Panic"
    /\ failures' = failures \cup {"panic"}
    /\ pc' = "unload_module"
    /\ UNCHANGED <<cmd, ctrlVars, output, module_index, module_loaded, load_reqs,
                   unload_reqs, loopVars, exitVars, sigHist, loopHist, helperVars, auxVars>>

\* self.unload_module(module_index)?; result.map_err(|error| panic!(...))
UnloadModule ==
    /\ pc = "unload_module"
    /\ unload_reqs' = Append(unload_reqs, module_index)
    /\ \E r \in {"true", "false", "Err"} :
         /\ module_loaded' = IF r = "true" THEN FALSE ELSE module_loaded
         /\ failures' = failures \cup (IF r = "Err" THEN {"unload"}
                                       ELSE IF r = "false" THEN {"unload_cb"} ELSE {})
         /\ IF r = "Err"
            THEN /\ output' = <<"Err", "unload">>
                 /\ pc' = "ctrlc_exit"
                 /\ UNCHANGED exitVars
            ELSE IF body_result = "Panic"
                 THEN /\ Return("panic", -1, "-")
                      /\ output' = <<"Panic", "-">>
                 ELSE /\ output' = <<"Ok", body_result>>
                      /\ pc' = "ctrlc_exit"
                      /\ UNCHANGED exitVars
    /\ UNCHANGED <<cmd, ctrlVars, body_result, module_index, load_reqs, loopVars,
                   sigHist, loopHist, helperVars, auxVars>>

----------------------------------------------------------------------------
\* The streaming loops: run_write_wav_command's closure and stream_samples_to_pulse

\* while !context.has_received_ctrlc()
LoopCheck ==
    /\ pc = "loop_check"
    /\ has_received_ctrlc \/ bufs_read < MaxReads
    /\ last_poll' = B2S(has_received_ctrlc)
    /\ fired_at_last_poll' = handler_fired
    /\ IF has_received_ctrlc
       THEN /\ observed' = TRUE
            /\ IF cmd = "wav"
               THEN output' = <<"Ok", "unit">> /\ pc' = "ctrlc_exit"
               ELSE pc' = "drain" /\ UNCHANGED output
       ELSE /\ pc' = "read"
            /\ UNCHANGED <<observed, output>>
    /\ UNCHANGED <<cmd, ctrlVars, sinkVars, loopVars, exitVars, failures, sigHist,
                   read_after_observed, last_read, total_at_read, sink_at_read,
                   helperVars, auxVars>>

\* io::recover_if_interrupted(|| input.read_exact(&mut buf), || ())?
ReadBuf ==
    /\ pc = "read"
    /\ bufs_read' = bufs_read + 1
    /\ reads_after_flag' = reads_after_flag + (IF CTRLC_HANDLED THEN 1 ELSE 0)
    /\ read_after_observed' = (read_after_observed \/ observed)
    /\ total_at_read' = total_written_samples
    /\ sink_at_read' = sink_samples
    /\ sample_i' = 0
    /\ \E f_out \in ReadOutcomes :
         LET r == recover_if_interrupted(f_out, "unit")
         IN /\ last_read' = IF f_out.tag = "Ok" THEN "Ok" ELSE f_out.kind
            /\ IF r.result.tag = "Ok"
               THEN /\ pc' = "write"
                    /\ UNCHANGED <<output, body_result, failures>>
               ELSE /\ failures' = failures \cup {"read"}
                    /\ IF cmd = "wav"
                       THEN /\ output' = <<"Err", "read">>
                            /\ pc' = "ctrlc_exit"
                            /\ UNCHANGED body_result
                       ELSE /\ body_result' = "Err_read"
                            /\ pc' = "unload_module"
                            /\ UNCHANGED output
    /\ UNCHANGED <<cmd, ctrlVars, module_index, module_loaded, load_reqs, unload_reqs,
                   total_written_samples, sink_samples, finalize_count, exitVars,
                   sigHist, observed, last_poll, fired_at_last_poll, helperVars,
                   previous_action, entry_disposition, install_attempts, serial_opened,
                   load_delivered>>

\* read_wav.rs: one io::retry_if_interrupted(|| writer.write_sample(sample), ..)?
\* of the nested for loops; after the last sample of the buffer the total advances
WriteSample ==
    /\ cmd = "wav"
    /\ pc = "write"
    /\ \E f \in SeqsUpTo(WriteOutcomes, MaxOps - 1) :
         LET r == retry_if_interrupted(f)
         IN /\ r.returned
            /\ IF r.result.tag = "Ok"
               THEN /\ sink_samples' = sink_samples + 1
                    /\ IF sample_i + 1 = BufSamples
                       THEN /\ sample_i' = 0
                            /\ total_written_samples' = total_written_samples + BufSize * 8
                            /\ pc' = "loop_check"
                       ELSE /\ sample_i' = sample_i + 1
                            /\ UNCHANGED <<total_written_samples, pc>>
                    /\ UNCHANGED <<output, failures>>
               ELSE /\ output' = <<"Err", "write">>
                    /\ failures' = failures \cup {"write"}
                    /\ pc' = "ctrlc_exit"
                    /\ UNCHANGED <<sample_i, sink_samples, total_written_samples>>
    /\ UNCHANGED <<cmd, ctrlVars, sinkVars, bufs_read, finalize_count, exitVars,
                   sigHist, loopHist, helperVars, auxVars>>

\* pulse_stream.rs: decode into out_buf, simple.write(&out_buf[..])?, advance the total
WriteBuf ==
    /\ cmd = "pulse"
    /\ pc = "write"
    /\ \E ok \in BOOLEAN :
         IF ok
         THEN /\ sink_samples' = sink_samples + BufSamples
              /\ total_written_samples' = total_written_samples + BufSamples
              /\ pc' = "loop_check"
              /\ UNCHANGED <<body_result, failures>>
         ELSE /\ body_result' = "Err_write"
              /\ failures' = failures \cup {"write"}
              /\ pc' = "unload_module"
              /\ UNCHANGED <<sink_samples, total_written_samples>>
    /\ UNCHANGED <<cmd, ctrlVars, output, module_index, module_loaded, load_reqs,
                   unload_reqs, sample_i, bufs_read, finalize_count, exitVars,
                   sigHist, loopHist, helperVars, auxVars>>

\* pulse_stream.rs: simple.drain()?; Ok(()) ends the body
Drain ==
    /\ pc = "drain"
    /\ finalize_count' = finalize_count + 1
    /\ \E ok \in BOOLEAN :
         IF ok
         THEN body_result' = "Ok" /\ UNCHANGED failures
         ELSE body_result' = "Err_drain" /\ failures' = failures \cup {"drain"}
    /\ pc' = "unload_module"
    /\ UNCHANGED <<cmd, ctrlVars, output, module_index, module_loaded, load_reqs,
                   unload_reqs, sample_i, total_written_samples, sink_samples,
                   bufs_read, exitVars, sigHist, loopHist, helperVars, auxVars>>

----------------------------------------------------------------------------
\* an ignoring_ctrlc that returns the record without restoring the disposition
CtrlcExit_no_restore ==
    /\ pc = "ctrlc_exit"
    /\ rec_has_received_ctrlc' = B2S(has_received_ctrlc)
    /\ pc' = IF cmd = "wav" THEN "wav_finish" ELSE "pulse_finish"
    /\ UNCHANGED <<cmd, CTRLC_HANDLED, sigint_handler, output, sinkVars, loopVars, exitVars,
                   failures, sigHist, loopHist, helperVars, auxVars>>

\* ctrlc.rs ignoring_ctrlc, after f returned: sigaction(SIGINT, &previous_action)?
\* and the record built from the flag and f's result
CtrlcExit ==
    /\ pc = "ctrlc_exit"
    /\ \E ok \in BOOLEAN :
         IF ok
         THEN /\ sigint_handler' = previous_action
              /\ rec_has_received_ctrlc' = B2S(has_received_ctrlc)
              /\ pc' = IF cmd = "wav" THEN "wav_finish" ELSE "pulse_finish"
              /\ UNCHANGED <<exitVars, failures>>
         ELSE /\ Return("err", -1, "sigaction_restore")
              /\ failures' = failures \cup {"sigaction_restore"}
              /\ UNCHANGED <<sigint_handler, rec_has_received_ctrlc>>
    /\ UNCHANGED <<cmd, CTRLC_HANDLED, output, sinkVars, loopVars, sigHist, loopHist,
                   helperVars, auxVars>>

\* an ending that, like the live-playback command, never looks at result.output
WavFinish_output_ignored ==
    /\ pc = "wav_finish"
    /\ IF rec_has_received_ctrlc = "T"
       THEN /\ finalize_count' = finalize_count + 1
            /\ \E ok \in BOOLEAN :
                 IF ok
                 THEN /\ Return("ok", exit_code_of(TRUE), "-")
                      /\ UNCHANGED failures
                 ELSE /\ Return("err", -1, "finalize")
                      /\ failures' = failures \cup {"finalize"}
       ELSE /\ Return("ok", exit_code_of(FALSE), "-")
            /\ UNCHANGED <<finalize_count, failures>>
    /\ UNCHANGED <<cmd, ctrlVars, output, sinkVars, sample_i, total_written_samples,
                   sink_samples, bufs_read, sigHist, loopHist, helperVars, auxVars>>

\* read_wav.rs after ignoring_ctrlc(..)?: finalize when interrupted, pick the
\* exit code, then result.output?
WavFinish ==
    /\ pc = "wav_finish"
    /\ IF rec_has_received_ctrlc = "T"
       THEN /\ finalize_count' = finalize_count + 1
            /\ \E ok \in BOOLEAN :
                 IF ok
                 THEN /\ IF output[1] = "Err"
                         THEN Return("err", -1, output[2])
                         ELSE Return("ok", exit_code_of(TRUE), "-")
                      /\ UNCHANGED failures
                 ELSE /\ Return("err", -1, "finalize")
                      /\ failures' = failures \cup {"finalize"}
       ELSE /\ IF output[1] = "Err"
               THEN Return("err", -1, output[2])
               ELSE Return("ok", exit_code_of(FALSE), "-")
            /\ UNCHANGED <<finalize_count, failures>>
    /\ UNCHANGED <<cmd, ctrlVars, output, sinkVars, sample_i, total_written_samples,
                   sink_samples, bufs_read, sigHist, loopHist, helperVars, auxVars>>

\* pulse_stream.rs after ignoring_ctrlc(..)?: mainloop.quit and the exit code;
\* result.output is not looked at
PulseFinish ==
    /\ pc = "pulse_finish"
    /\ Return("ok", exit_code_of(rec_has_received_ctrlc = "T"), "-")
    /\ UNCHANGED <<cmd, ctrlVars, output, sinkVars, loopVars, failures, sigHist,
                   loopHist, helperVars, auxVars>>

Next ==
    \/ Sigint
    \/ WavOpenSerial
    \/ WavCreateWriter
    \/ PulseCreate
    \/ PulsePreflight
    \/ CtrlcEnter
    \/ LoadModule
    \/ OpenStream
    \/ OpenSerial
    \/ BodyPanic
    \/ UnloadModule
    \/ LoopCheck
    \/ ReadBuf
    \/ WriteSample
    \/ WriteBuf
    \/ Drain
    \/ CtrlcExit
    \/ WavFinish
    \/ PulseFinish

Spec == Init /\ [][Next]_vars

----------------------------------------------------------------------------
\* The io helpers on their own: the op's outcomes are scripted in h_script

MainIdle ==
    /\ cmd = "none"
    /\ pc = "idle"
    /\ CTRLC_HANDLED = FALSE
    /\ sigint_handler = "SIG_DFL"
    /\ rec_has_received_ctrlc = "none"
    /\ output = <<"none", "none">>
    /\ body_result = "none"
    /\ module_index = -1
    /\ module_loaded = FALSE
    /\ load_reqs = 0
    /\ unload_reqs = <<>>
    /\ sample_i = 0
    /\ total_written_samples = 0
    /\ sink_samples = 0
    /\ bufs_read = 0
    /\ finalize_count = 0
    /\ exit_kind = "none"
    /\ exit_code = -1
    /\ exit_err = "-"
    /\ failures = {}
    /\ handler_fired = FALSE
    /\ fired_in_body = FALSE
    /\ sig_in_loop = FALSE
    /\ observed = FALSE
    /\ read_after_observed = FALSE
    /\ last_poll = "none"
    /\ fired_at_last_poll = FALSE
    /\ last_read = "none"
    /\ total_at_read = 0
    /\ sink_at_read = 0
    /\ previous_action = "none"
    /\ entry_disposition = "none"
    /\ install_attempts = 0
    /\ serial_opened = FALSE
    /\ load_delivered = -1
    /\ reads_after_flag = 0

mainVars == <<cmd, pc, ctrlVars, output, sinkVars, loopVars, exitVars, failures,
              sigHist, loopHist, auxVars>>

\* std::io::Result<A> of the op given to recover_if_interrupted
IoOutcomes == {o \in OpOutcomes : o.tag = "Ok" \/ o.variant = "IoError"}

InitIo ==
    /\ MainIdle
    /\ br = BrIdle
    /\ h_fn \in {"retry", "recover"}
    /\ h_script \in IF h_fn = "retry" THEN SeqsUpTo(OpOutcomes, MaxOps)
                                      ELSE SeqsUpTo(IoOutcomes, 1)
    /\ h_out = [returned |-> FALSE, result |-> Ok("-"), calls |-> 0, r_calls |-> 0]

RetryIfInterrupted ==
    /\ h_fn = "retry"
    /\ h_out.calls = 0
    /\ h_out' = retry_if_interrupted(h_script)
    /\ UNCHANGED <<mainVars, h_fn, h_script, br>>

RecoverIfInterrupted ==
    /\ h_fn = "recover"
    /\ h_out.calls = 0
    /\ h_out' = recover_if_interrupted(h_script[1], "r")
    /\ UNCHANGED <<mainVars, h_fn, h_script, br>>

NextIo ==
    \/ RetryIfInterrupted
    \/ RecoverIfInterrupted

SpecIo == InitIo /\ [][NextIo]_vars

----------------------------------------------------------------------------
\* Properties

LoadSucceeded == module_index # -1

\* using_null_sink has given control back to its caller, by return or by unwinding
SinkExited == cmd = "pulse" /\ (output[1] # "none" \/ exit_kind = "panic")

BodyFinished == body_result # "none"

INTERRUPTED_EXIT == SIGINT_BASE + SIGINT

\* C1: whenever load_module succeeded, using_null_sink issues exactly one
\* unload request, for the returned module id, after the body has finished and
\* before control leaves using_null_sink, whether the body returned Ok, returned
\* Err or panicked.
C1_ExactlyOneUnload ==
    /\ Len(unload_reqs) <= 1
    /\ unload_reqs # <<>> => (LoadSucceeded /\ BodyFinished /\ unload_reqs[1] = module_index)
    /\ (LoadSucceeded /\ SinkExited) => unload_reqs = <<module_index>>

C1_Witness ==
    /\ SinkExited
    /\ LoadSucceeded
    /\ body_result = "Panic"
    /\ unload_reqs = <<module_index>>

\* fatal conditions raised inside the closure given to ignoring_ctrlc
ScopeFailures == {"load", "unload", "stream_open", "serial_open", "read", "write", "drain"}

\* C2: in the live-playback command, an execution in which a fatal condition
\* was raised inside the cancellation scope never returns exit code 0 nor
\* 128+SIGINT.
C2_FailureReachesEntryPoint ==
    (cmd = "pulse" /\ pc = "done" /\ failures \cap ScopeFailures # {})
        => ~(exit_kind = "ok" /\ exit_code \in {EXIT_SUCCESS, INTERRUPTED_EXIT})

\* C3: when the body panics, using_null_sink, having unloaded the module,
\* returns an error value and the panic does not leave using_null_sink.
C3_PanicBecomesError ==
    (SinkExited /\ body_result = "Panic")
        => (output[1] = "Err" /\ exit_kind # "panic")

\* C4: when the unload step fails after the body returned Ok or Err, what
\* using_null_sink hands to its caller still carries the body's outcome.
C4_BodyOutcomePreserved ==
    (SinkExited /\ BodyFinished /\ body_result # "Panic"
       /\ failures \cap {"unload", "unload_cb"} # {})
        => (output[1] = "Ok" /\ output[2] = body_result)

\* C5: an iteration whose read failed with Interrupted does not fail the loop,
\* writes no samples to the sink and does not advance the running total.
C5_InterruptedReadProducesNothing ==
    last_read = "Interrupted"
        => /\ "read" \notin failures
           /\ sink_samples = sink_at_read
           /\ total_written_samples = total_at_read

\* C6: when the flag is set while the streaming loop runs and nothing fails,
\* every buffer read is written in full, no read is started after the check
\* that observed the flag, finalize/drain is invoked exactly once, and the
\* command (unless a later SIGINT under the restored disposition ends the
\* process) returns Ok with exit code 128+SIGINT.
C6_CleanCancellation ==
    /\ ~read_after_observed
    /\ (sig_in_loop /\ failures = {}) => finalize_count <= 1
    /\ (pc = "done" /\ exit_kind # "killed" /\ sig_in_loop /\ failures = {})
         => /\ exit_kind = "ok"
            /\ exit_code = INTERRUPTED_EXIT
            /\ finalize_count = 1
            /\ observed
            /\ sink_samples = bufs_read * BufSamples
            /\ total_written_samples = bufs_read * BufSamples

C6_Witness ==
    /\ pc = "done"
    /\ exit_kind = "ok"
    /\ sig_in_loop
    /\ failures = {}
    /\ bufs_read = MaxReads
    /\ finalize_count = 1

\* C7: in the file-output command, when a read or a sample write fails with
\* a condition other than Interrupted, the command returns that failure and
\* finalize is not invoked, also when the flag had been set before the failure.
C7_NoFinalizeOnFailure ==
    (cmd = "wav" /\ pc = "done" /\ exit_kind # "killed"
       /\ failures \cap {"read", "write"} # {} /\ "sigaction_restore" \notin failures)
        => /\ exit_kind = "err"
           /\ exit_err \in failures \cap {"read", "write"}
           /\ finalize_count = 0

InActivation == sigint_handler = "handle_ignore_sigint"

\* C8: within one activation of ignoring_ctrlc the flag is false at entry,
\* only goes from false to true and is never reset; a poll returns true
\* exactly when the handler has fired earlier in the activation, and the
\* returned record reports an interrupt exactly when the handler fired (so it
\* does whenever the handler fired during the body).
C8_State ==
    /\ InActivation => (CTRLC_HANDLED <=> handler_fired)
    /\ last_poll # "none" => last_poll = B2S(fired_at_last_poll)
    /\ rec_has_received_ctrlc # "none" =>
         /\ rec_has_received_ctrlc = B2S(handler_fired)
         /\ fired_in_body => rec_has_received_ctrlc = "T"

C8_Step ==
    /\ (pc = "ctrlc_enter" /\ InActivation') => ~CTRLC_HANDLED'
    /\ (InActivation /\ CTRLC_HANDLED) => CTRLC_HANDLED'
    /\ (fired_at_last_poll /\ last_poll = "T" /\ last_poll' # last_poll) => FALSE

C8_FlagMonotone == [](C8_State) /\ [][C8_Step]_vars

C8_Witness ==
    /\ rec_has_received_ctrlc = "T"
    /\ fired_in_body
    /\ last_poll = "T"
    /\ bufs_read >= 1

IsInterrupted(o) == o.tag = "Err" /\ o.variant = "IoError" /\ o.kind = "Interrupted"

NonInterruptedAt(f) == {i \in 1..Len(f) : ~IsInterrupted(f[i])}

\* C9: retry_if_interrupted returns the outcome of the first invocation of
\* the op that is not an interrupted failure, after exactly k+1 invocations
\* when the first k outcomes are interrupted failures; it never returns an
\* interrupted failure.
C9_RetryReturnsFirstNonInterrupted ==
    (h_fn = "retry" /\ h_out.calls > 0)
        => /\ h_out.returned => ~IsInterrupted(h_out.result)
           /\ IF NonInterruptedAt(h_script) = {}
              THEN ~h_out.returned /\ h_out.calls = Len(h_script)
              ELSE LET first == CHOOSE i \in NonInterruptedAt(h_script) :
                                   \A j \in NonInterruptedAt(h_script) : i <= j
                   IN /\ h_out.returned
                      /\ h_out.result = h_script[first]
                      /\ h_out.calls = first

C9_Witness ==
    /\ h_fn = "retry"
    /\ h_out.returned
    /\ h_out.calls = 3
    /\ IsInterrupted(h_script[1])
    /\ IsInterrupted(h_script[2])
    /\ h_out.result = Err("IoError", "TimedOut")

\* C10: recover_if_interrupted invokes the op once; an Interrupted failure
\* becomes Ok(recovery value); a success or any other failure is returned
\* unchanged and recovery is not invoked.
C10_RecoverOnlyInterrupted ==
    (h_fn = "recover" /\ h_out.calls > 0)
        => /\ h_out.returned
           /\ h_out.calls = 1
           /\ IF IsInterrupted(h_script[1])
              THEN h_out.result = Ok("r") /\ h_out.r_calls = 1
              ELSE h_out.result = h_script[1] /\ h_out.r_calls = 0

C10_Witness ==
    /\ h_fn = "recover"
    /\ h_out.calls = 1
    /\ IsInterrupted(h_script[1])
    /\ h_out.result = Ok("r")

----------------------------------------------------------------------------
\* io.rs: the sample decoders

U8_MAX == 255

\* input >> k on a u8
Shr(input, k) == input \div (2 ^ k)

\* x & 1
And1(x) == x % 2

bit_sample_to_signed8(sample) == IF sample THEN 127 ELSE -128

bit_sample_to_unsigned8_full_range(sample) == IF sample THEN 255 ELSE 0

bit_sample_to_unsigned8_half_range(sample) == IF sample THEN 255 ELSE 127

\* a decoder that takes the least significant bit first
decode_esp32_sample_lsb_first(input) ==
    << bit_sample_to_signed8(And1(Shr(input, 0)) # 0),
       bit_sample_to_signed8(And1(Shr(input, 1)) # 0),
       bit_sample_to_signed8(And1(Shr(input, 2)) # 0),
       bit_sample_to_signed8(And1(Shr(input, 3)) # 0),
       bit_sample_to_signed8(And1(Shr(input, 4)) # 0),
       bit_sample_to_signed8(And1(Shr(input, 5)) # 0),
       bit_sample_to_signed8(And1(Shr(input, 6)) # 0),
       bit_sample_to_signed8(And1(Shr(input, 7)) # 0) >>

decode_esp32_sample(input) ==
    << bit_sample_to_signed8(And1(Shr(input, 7)) # 0),
       bit_sample_to_signed8(And1(Shr(input, 6)) # 0),
       bit_sample_to_signed8(And1(Shr(input, 5)) # 0),
       bit_sample_to_signed8(And1(Shr(input, 4)) # 0),
       bit_sample_to_signed8(And1(Shr(input, 3)) # 0),
       bit_sample_to_signed8(And1(Shr(input, 2)) # 0),
       bit_sample_to_signed8(And1(Shr(input, 1)) # 0),
       bit_sample_to_signed8(And1(Shr(input, 0)) # 0) >>

decode_esp32_sample_unsigned_full_range(input) ==
    << bit_sample_to_unsigned8_full_range(And1(Shr(input, 7)) # 0),
       bit_sample_to_unsigned8_full_range(And1(Shr(input, 6)) # 0),
       bit_sample_to_unsigned8_full_range(And1(Shr(input, 5)) # 0),
       bit_sample_to_unsigned8_full_range(And1(Shr(input, 4)) # 0),
       bit_sample_to_unsigned8_full_range(And1(Shr(input, 3)) # 0),
       bit_sample_to_unsigned8_full_range(And1(Shr(input, 2)) # 0),
       bit_sample_to_unsigned8_full_range(And1(Shr(input, 1)) # 0),
       bit_sample_to_unsigned8_full_range(And1(Shr(input, 0)) # 0) >>

decode_esp32_sample_unsigned_half_range(input) ==
    << bit_sample_to_unsigned8_half_range(And1(Shr(input, 7)) # 0),
       bit_sample_to_unsigned8_half_range(And1(Shr(input, 6)) # 0),
       bit_sample_to_unsigned8_half_range(And1(Shr(input, 5)) # 0),
       bit_sample_to_unsigned8_half_range(And1(Shr(input, 4)) # 0),
       bit_sample_to_unsigned8_half_range(And1(Shr(input, 3)) # 0),
       bit_sample_to_unsigned8_half_range(And1(Shr(input, 2)) # 0),
       bit_sample_to_unsigned8_half_range(And1(Shr(input, 1)) # 0),
       bit_sample_to_unsigned8_half_range(And1(Shr(input, 0)) # 0) >>

Decoders == {"decode_esp32_sample", "decode_esp32_sample_unsigned_full_range",
             "decode_esp32_sample_unsigned_half_range"}

InitDecode ==
    /\ MainIdle
    /\ br = BrIdle
    /\ h_fn \in Decoders
    /\ h_script \in {<<input>> : input \in 0..U8_MAX}
    /\ h_out = [returned |-> FALSE, result |-> Ok("-"), calls |-> 0, r_calls |-> 0]

DecodeSample ==
    /\ h_fn \in Decoders
    /\ h_out.calls = 0
    /\ h_out' = [returned |-> TRUE,
                 result |-> CASE h_fn = "decode_esp32_sample" ->
                                   decode_esp32_sample(h_script[1])
                              [] h_fn = "decode_esp32_sample_unsigned_full_range" ->
                                   decode_esp32_sample_unsigned_full_range(h_script[1])
                              [] OTHER ->
                                   decode_esp32_sample_unsigned_half_range(h_script[1]),
                 calls |-> 1, r_calls |-> 0]
    /\ UNCHANGED <<mainVars, h_fn, h_script, br>>

NextDecode == DecodeSample

SpecDecode == InitDecode /\ [][NextDecode]_vars

\* the (low, high) pair of each amplitude policy
PolicyLow(fn) ==
    CASE fn = "decode_esp32_sample" -> -128
      [] fn = "decode_esp32_sample_unsigned_full_range" -> 0
      [] OTHER -> 127

PolicyHigh(fn) == IF fn = "decode_esp32_sample" THEN 127 ELSE 255

RECURSIVE WeightOfHighs(_, _, _)
\* the number whose binary digits, most significant first, are 1 where s is high
WeightOfHighs(s, high, i) ==
    IF i > Len(s) THEN 0
    ELSE (IF s[i] = high THEN 2 ^ (Len(s) - i) ELSE 0) + WeightOfHighs(s, high, i + 1)

\* C11: for every byte and each amplitude policy the decoder returns exactly
\* 8 samples, each the policy's low or high value, sample i being high exactly
\* when bit (7 - i) of the byte is 1.
C11_DecodeMsbFirst ==
    (h_fn \in Decoders /\ h_out.calls = 1)
        => LET s == h_out.result
           IN /\ Len(s) = 8
              /\ \A i \in 1..8 : s[i] \in {PolicyLow(h_fn), PolicyHigh(h_fn)}
              /\ WeightOfHighs(s, PolicyHigh(h_fn), 1) = h_script[1]

C11_Witness ==
    /\ h_fn = "decode_esp32_sample"
    /\ h_script = <<176>>
    /\ h_out.calls = 1
    /\ h_out.result = <<127, -128, 127, 127, -128, -128, -128, -128>>

----------------------------------------------------------------------------
\* Properties of the live-playback command and of the cancellation scope

\* C12: when the pre-flight query reports an existing sink, the command
\* returns the failure exit code at once: no load_module request, no interrupt
\* handler installed, the serial port not opened.
C12_PreflightAborts ==
    "sink_exists" \in failures
        => /\ pc = "done"
           /\ exit_kind = "ok"
           /\ exit_code = EXIT_FAILURE
           /\ load_reqs = 0
           /\ install_attempts = 0
           /\ ~InActivation
           /\ ~serial_opened

C12_Witness ==
    /\ "sink_exists" \in failures
    /\ pc = "done"
    /\ exit_code = EXIT_FAILURE

\* C13: a failed unload, whether the blocking call fails or the unload
\* callback reports no success, is handed to the caller of using_null_sink as
\* an error, and no second unload request is issued.
C13_UnloadFailurePropagated ==
    (SinkExited /\ body_result # "Panic" /\ failures \cap {"unload", "unload_cb"} # {})
        => (output[1] = "Err" /\ Len(unload_reqs) = 1)

\* the streaming-loop steps the scheduler cannot starve: every read returns
\* within its timeout and every retried write ends
SpecLive ==
    /\ Init
    /\ [][Next]_vars
    /\ WF_vars(LoopCheck)
    /\ WF_vars(ReadBuf)
    /\ WF_vars(WriteSample)
    /\ WF_vars(WriteBuf)

\* C16: once the flag is set during streaming the loop eventually ends, and at
\* most one read is started after the flag was set.
C16_LoopStopsAfterFlag ==
    /\ [](reads_after_flag <= 1)
    /\ ((CTRLC_HANDLED /\ pc \in LoopPcs) ~> (pc \notin LoopPcs))

C16_Witness ==
    /\ reads_after_flag = 1
    /\ observed
    /\ pc \notin LoopPcs
    /\ failures = {}

\* C17: handle_ignore_sigint stays installed for the whole execution of the
\* body; whenever ignoring_ctrlc returns its record the SIGINT disposition is
\* the one in effect before the call; when installing the handler fails the
\* body is never invoked and the failure is returned after a single attempt.
C17_HandlerScoped ==
    /\ pc \in BodyPcs => InActivation
    /\ rec_has_received_ctrlc # "none"
         => (entry_disposition # "none" /\ sigint_handler = entry_disposition)
    /\ "sigaction_install" \in failures
         => /\ pc = "done"
            /\ exit_kind = "err"
            /\ exit_err = "sigaction_install"
            /\ install_attempts = 1
            /\ sigint_handler = entry_disposition
            /\ load_reqs = 0
            /\ last_poll = "none"

C17_Witness ==
    /\ rec_has_received_ctrlc = "T"
    /\ entry_disposition = "SIG_IGN"
    /\ sigint_handler = "SIG_IGN"
    /\ bufs_read >= 1

\* C19: when the load callback delivers u32::MAX, load_module fails and
\* using_null_sink returns that error without running the body and without
\* any unload request; any other delivered value becomes the module id.
C19_LoadSentinel ==
    /\ load_delivered = U32_MAX
         => /\ output = <<"Err", "load">>
            /\ module_index = -1
            /\ body_result = "none"
            /\ pc \notin (PulseBodyPcs \cup {"unload_module"})
            /\ ~serial_opened
            /\ unload_reqs = <<>>
    /\ load_delivered \notin {-1, U32_MAX} => module_index = load_delivered

C19_Witness ==
    /\ load_delivered = U32_MAX
    /\ output = <<"Err", "load">>
    /\ pc = "done"

\* the module's lifetime: from the successful load to the end of the unload step
ModuleHeld == cmd = "pulse" /\ LoadSucceeded /\ unload_reqs = <<>>

\* C20: while the module is held, handle_ignore_sigint is the installed
\* handler, so SIGINT only sets the flag and never ends the process there; the
\* previous disposition is back only after the unload step has run.
C20_ModuleInsideActivation ==
    /\ ModuleHeld => (InActivation /\ exit_kind # "killed")
    /\ (LoadSucceeded /\ rec_has_received_ctrlc # "none") => Len(unload_reqs) = 1
    /\ (LoadSucceeded /\ exit_kind = "killed") => Len(unload_reqs) = 1

C20_Witness ==
    /\ ModuleHeld
    /\ CTRLC_HANDLED
    /\ pc = "write"
    /\ InActivation

----------------------------------------------------------------------------
\* pulse_stream.rs: SinkSpec, the module argument string. A string is the
\* sequence of its characters; fixed pieces of text are single elements.

MaxDescLen == 3     \* longest device description

SQ == "'"
DQ == "\""
BS == "\\"
SP == " "

\* PA_ESCAPE_CHARS_REGEX: ('|"| |\\)
PA_ESCAPE_CHARS == {SQ, DQ, SP, BS}

DescChars == PA_ESCAPE_CHARS \cup {"a"}

\* an escape that leaves the backslash alone
pa_escape_char_no_backslash(c) ==
    IF c \in {SQ, DQ, SP} THEN <<BS, c>> ELSE <<c>>

\* the replacement closure of pa_escape_string for one character of the input
pa_escape_char(c) ==
    IF c \in PA_ESCAPE_CHARS THEN <<BS, c>> ELSE <<c>>

RECURSIVE pa_escape_string(_)
\* Regex::replace_all: every match, left to right, is replaced
pa_escape_string(input) ==
    IF input = <<>> THEN <<>>
    ELSE pa_escape_char(Head(input)) \o pa_escape_string(Tail(input))

SupportedFormats == {"U8", "S16le", "S16be", "F32le", "F32be", "S32le", "S32be",
                     "S24le", "S24be"}
Formats == SupportedFormats \cup {"ALaw"}

\* SinkSpec::audio_format_to_string; "panic" stands for the panic! arm
audio_format_to_string(format) ==
    CASE format = "U8" -> "u8"
      [] format = "S16le" -> "s16le"
      [] format = "S16be" -> "s16be"
      [] format = "F32le" -> "f32le"
      [] format = "F32be" -> "f32be"
      [] format = "S32le" -> "s32le"
      [] format = "S32be" -> "f32be"
      [] format = "S24le" -> "s24le"
      [] format = "S24be" -> "s24be"
      [] OTHER -> "panic"

None == [some |-> FALSE, val |-> <<>>]
Some(v) == [some |-> TRUE, val |-> v]

RECURSIVE Join(_, _)
\* [..].join(sep)
Join(parts, sep) ==
    IF Len(parts) = 0 THEN <<>>
    ELSE IF Len(parts) = 1 THEN parts[1]
    ELSE parts[1] \o <<sep>> \o Join(Tail(parts), sep)

\* SinkSpec::build_sink_arguments
build_sink_arguments(sink_name, device_description, format, rate, channels) ==
    LET sink_properties ==
            IF device_description.some
            THEN <<"sink_properties=device.description=", SQ>>
                   \o pa_escape_string(device_description.val) \o <<SQ>>
            ELSE <<>>
        fmt == audio_format_to_string(format)
    IN [returned |-> fmt # "panic",
        result |-> Join(<< <<"sink_name=", sink_name>>,
                           sink_properties,
                           <<"format=", fmt>>,
                           <<"rate=", ToString(rate)>>,
                           <<"channels=", ToString(channels)>> >>, SP),
        calls |-> 1, r_calls |-> 0]

PULSE_SINK_NAME == "esp32-signal-device"
Rates == {44100}

InitArgs ==
    /\ MainIdle
    /\ br = BrIdle
    /\ h_fn = "build_sink_arguments"
    /\ h_script \in {<<format, description, rate>> :
                        format \in Formats,
                        description \in {None} \cup
                            {Some(d) : d \in {<<>>} \cup SeqsUpTo(DescChars, MaxDescLen)},
                        rate \in Rates}
    /\ h_out = [returned |-> FALSE, result |-> Ok("-"), calls |-> 0, r_calls |-> 0]

BuildSinkArguments ==
    /\ h_fn = "build_sink_arguments"
    /\ h_out.calls = 0
    /\ h_out' = build_sink_arguments(PULSE_SINK_NAME, h_script[2], h_script[1],
                                     h_script[3], 1)
    /\ UNCHANGED <<mainVars, h_fn, h_script, br>>

NextArgs == BuildSinkArguments

SpecArgs == InitArgs /\ [][NextArgs]_vars

ArgsBuilt == h_fn = "build_sink_arguments" /\ h_out.calls = 1

\* the element that follows the key in an argument string
ValueOf(args, key) ==
    LET i == CHOOSE j \in 1..Len(args) : args[j] = key IN args[i + 1]

\* the name the audio server knows a supported format by
FormatName(format) ==
    CASE format = "U8" -> "u8"
      [] format = "S16le" -> "s16le"
      [] format = "S16be" -> "s16be"
      [] format = "S24le" -> "s24le"
      [] format = "S24be" -> "s24be"
      [] format = "S32le" -> "s32le"
      [] format = "S32be" -> "s32be"
      [] format = "F32le" -> "f32le"
      [] format = "F32be" -> "f32be"

\* C14: each supported format is rendered in the argument string as its own
\* name, so the format= value tells the formats apart.
C14_FormatTable ==
    (ArgsBuilt /\ h_script[1] \in SupportedFormats)
        => /\ h_out.returned
           /\ ValueOf(h_out.result, "format=") = FormatName(h_script[1])
           /\ \A g \in SupportedFormats :
                audio_format_to_string(g) = ValueOf(h_out.result, "format=")
                    => g = h_script[1]

\* the escaped description inside the quotes of sink_properties
EscapedIn(args) ==
    LET i == CHOOSE j \in 1..Len(args) : args[j] = "sink_properties=device.description="
        k == CHOOSE j \in 1..Len(args) : args[j] = "format="
    IN SubSeq(args, i + 2, k - 3)

RECURSIVE Unescape(_)
\* removing the backslash in front of each escaped character
Unescape(e) ==
    IF e = <<>> THEN <<>>
    ELSE IF Head(e) = BS /\ Len(e) >= 2
         THEN <<e[2]>> \o Unescape(Tail(Tail(e)))
         ELSE <<Head(e)>> \o Unescape(Tail(e))

\* number of characters to escape among the first n of d
EscapedBefore(d, n) == Cardinality({j \in 1..n : d[j] \in PA_ESCAPE_CHARS})

\* C15: the escaped description is the input with each quote, double quote,
\* backslash and space preceded by exactly one backslash and every other
\* character unchanged and in order; removing those backslashes gives the
\* description back.
C15_EscapeRoundTrip ==
    (ArgsBuilt /\ h_out.returned /\ h_script[2].some)
        => LET d == h_script[2].val
               e == EscapedIn(h_out.result)
           IN /\ Len(e) = Len(d) + EscapedBefore(d, Len(d))
              /\ \A i \in 1..Len(d) :
                    /\ e[i + EscapedBefore(d, i)] = d[i]
                    /\ d[i] \in PA_ESCAPE_CHARS => e[i + EscapedBefore(d, i) - 1] = BS
              /\ Unescape(e) = d

C15_Witness ==
    /\ ArgsBuilt
    /\ h_script[2] = Some(<<SQ, SP, BS>>)
    /\ EscapedIn(h_out.result) = <<BS, SQ, BS, SP, BS, BS>>

----------------------------------------------------------------------------
\* pulse_stream.rs: PulseUtil::call_introspect_function, the blocking bridge
\* over the audio server's callbacks. br.cell is the Rc<RefCell<Option<A>>>
\* ("None" or the captured value), br.rc its strong count (the local `cell`
\* plus the `setter` owned by the registered callback), br.srv what the server
\* still has to deliver.

MaxIdle == 3        \* event-loop iterations that deliver nothing to the callback

\* the requests the program issues through the bridge
BridgeKinds == {"load_module", "unload_module", "get_sink_info_by_name"}

\* values the server's single-shot callbacks deliver
SingleValues(kind) ==
    IF kind = "load_module" THEN {"0", "1", "u32::MAX"} ELSE {"true", "false"}

\* get_sink_owner_module_by_name: ListResult::Item(item) => callback(Some(item.owner_module))
ItemValues == {"Some(Some(0))", "Some(None)"}

\* a callback where the last invocation wins
callback_fun_overwrite(cell, result) == result

\* callback_fun: if setter.borrow().is_none() { setter.replace(Some(result)); }
callback_fun(cell, result) == IF cell = "None" THEN result ELSE cell

\* one invocation of the registered callback with result
Invoke(b, result) ==
    [b EXCEPT !.cell = callback_fun(b.cell, result),
              !.cb_calls = b.cb_calls + 1,
              !.first = IF b.cb_calls = 0 THEN result ELSE b.first]

\* the binding frees the boxed callback (and the setter it owns) after the
\* only invocation of a single-shot callback and after End/Error of a list
DropCallback(b) == [b EXCEPT !.rc = b.rc - 1, !.srv = "done"]

InitBridge ==
    /\ MainIdle
    /\ h_fn = "idle"
    /\ h_script = <<>>
    /\ h_out = [returned |-> FALSE, result |-> Ok("-"), calls |-> 0, r_calls |-> 0]
    /\ br \in {[BrIdle EXCEPT !.pc = "call", !.kind = k] : k \in BridgeKinds}

\* cell = Rc::new(..); setter = cell.clone(); caller(introspect(), Box::new(callback_fun))
BridgeCall ==
    /\ br.pc = "call"
    /\ br' = [br EXCEPT !.pc = "pump", !.rc = 2, !.srv = "pending"]
    /\ UNCHANGED <<mainVars, h_fn, h_script, h_out>>

\* while &*cell.borrow() == &None { self.wait_next_event()?; }: one iteration
\* of the main loop, which fails, delivers nothing, or runs the callback
BridgeIterate ==
    /\ br.pc = "pump"
    /\ br.cell = "None"
    /\ \/ br' = [br EXCEPT !.pc = "failed"]
       \/ /\ br.idle < MaxIdle
          /\ br' = [br EXCEPT !.idle = br.idle + 1]
       \/ /\ br.kind # "get_sink_info_by_name"
          /\ br.srv = "pending"
          /\ \E v \in SingleValues(br.kind) : br' = DropCallback(Invoke(br, v))
       \/ /\ br.kind = "get_sink_info_by_name"
          /\ br.srv = "pending"
          /\ \/ br' = DropCallback(Invoke(br, "None"))
             \/ \E v \in ItemValues :
                  \/ br' = DropCallback(Invoke(Invoke(br, v), "None"))
                  \/ br' = [Invoke(br, v) EXCEPT !.srv = "item_sent"]
    /\ UNCHANGED <<mainVars, h_fn, h_script, h_out>>

\* the loop has seen a value: match Rc::try_unwrap(cell) { Ok => value, Err => panic! }
BridgeReturn ==
    /\ br.pc = "pump"
    /\ br.cell # "None"
    /\ br' = IF br.rc = 1
             THEN [br EXCEPT !.pc = "returned", !.ret = br.cell]
             ELSE [br EXCEPT !.pc = "panicked"]
    /\ UNCHANGED <<mainVars, h_fn, h_script, h_out>>

NextBridge ==
    \/ BridgeCall
    \/ BridgeIterate
    \/ BridgeReturn

SpecBridge == InitBridge /\ [][NextBridge]_vars

----------------------------------------------------------------------------
\* Properties of the two commands' endings

\* C21: run_write_wav_command never returns exit code 0: a return with an
\* exit code carries 128 + SIGINT, after the loop observed the flag and
\* finalize was invoked; every other return is an error.
C21_WavNeverSuccess ==
    (cmd = "wav" /\ pc = "done" /\ exit_kind # "killed")
        => /\ exit_kind \in {"ok", "err"}
           /\ exit_code # EXIT_SUCCESS
           /\ exit_kind = "ok"
                => /\ exit_code = INTERRUPTED_EXIT
                   /\ finalize_count = 1
                   /\ observed
                   /\ rec_has_received_ctrlc = "T"
                   /\ output[1] = "Ok"

C21_Witness ==
    /\ cmd = "wav"
    /\ pc = "done"
    /\ exit_kind = "ok"
    /\ exit_code = INTERRUPTED_EXIT
    /\ bufs_read >= 1
    /\ finalize_count = 1

\* C22: when the pump loop of call_introspect_function ends because a value
\* was captured, the callback's reference to the cell has been released, so
\* Rc::try_unwrap succeeds and the call does not panic, also for a list query
\* whose Item and End arrive in different iterations.
C22_UnwrapNeverPanics ==
    /\ (br.pc = "pump" /\ br.cell # "None") => br.rc = 1
    /\ br.pc # "panicked"

====
